---------------------------- MODULE Spec2Model ----------------------------
(***************************************************************************)
(* Model of biome-config-generator (main.go): the directory scanner        *)
(* findConfigs, the per-directory migration loop of main, and the JSON     *)
(* read-modify-write of patchBiomeConfig.                                  *)
(*                                                                         *)
(* Three specifications share the module:                                  *)
(*   SpecPatch  patchBiomeConfig applied repeatedly to one file            *)
(*   SpecScan   findConfigs walking one file tree                          *)
(*   SpecMain   main after flag parsing: scan result, loop, exit code      *)
(***************************************************************************)
EXTENDS Integers, Sequences, FiniteSets, TLC

VARIABLES
    \* ---- SpecPatch: one biome.json and the calls made on it
    pfile,      \* sequence of the file's contents: original, then after each call
    pout,       \* sequence of the outcomes of the calls ("ok", "err", "panic")
    \* ---- SpecScan: filepath.Walk over one tree
    tree,       \* node -> [name, isDir, err]; node 1 is the root, Parent(n) = n \div 2
    todo,       \* nodes still to be handed to the walk, next one first
    locations,  \* the map built by findConfigs: directory node -> flags
    visited,    \* nodes the walk function was called for
    errSeen,    \* TRUE once the walk function has been called with a non-nil err
    walkPc,     \* "walk", "done" (err == nil returned) or "failed" (err returned)
    \* ---- SpecMain: main from line 73 on
    locs,       \* result of findConfigs: directory -> [hasEslint, hasPrettier]
    scanErr,    \* findConfigs returned an error
    dryRun,     \* the -dry-run flag
    fs,         \* directory -> content of its biome.json
    fs0,        \* fs at the start of the run
    pc,         \* position in main
    remaining,  \* directories the range loop has not reached yet
    cur,        \* directory of the current iteration (0: none)
    existingBiome,
    migrationFailed,
    log,        \* directory -> sequence of the effects main performed for it
    ended,      \* directories whose loop iteration ran to its end or to a continue
    exitCode,   \* -1 while running
    reminder    \* the final "Done! ..." lines were printed

varsPatch == <<pfile, pout>>
varsScan  == <<tree, todo, locations, visited, errSeen, walkPc>>
varsMain  == <<locs, scanErr, dryRun, fs, fs0, pc, remaining, cur, existingBiome,
               migrationFailed, log, ended, exitCode, reminder>>
vars      == <<varsPatch, varsScan, varsMain>>

----------------------------------------------------------------------------
(* Bounds *)

MaxOff     == 1   \* number literals are b * 2^53 + k with b \in 0..1, k \in 0..MaxOff
MaxPatches == 2   \* calls of patchBiomeConfig on the same file
MaxNodes   == 5   \* nodes of the walked tree
NumDirs    == 2   \* directories the scan result may hold

----------------------------------------------------------------------------
(* JSON values.  Every value is a record [t, n, o]: t the type, n the      *)
(* number <<b, k>> standing for b * 2^53 + k, o the members of an object.  *)

NoNum == <<0, 0>>
NoObj == <<>>

JNull     == [t |-> "null", n |-> NoNum, o |-> NoObj]
JTrue     == [t |-> "bool", n |-> <<0, 1>>, o |-> NoObj]
JFalse    == [t |-> "bool", n |-> <<0, 0>>, o |-> NoObj]
JStr      == [t |-> "str", n |-> NoNum, o |-> NoObj]
JNum(b, k) == [t |-> "num", n |-> <<b, k>>, o |-> NoObj]
JObj(f)   == [t |-> "obj", n |-> NoNum, o |-> f]

IsObj(v) == v.t = "obj"

\* map[string]any{key: val}
Single(key, val) == [x \in {key} |-> val]

\* m[key] = val on a Go map
Put(m, key, val) == [x \in (DOMAIN m) \cup {key} |-> IF x = key THEN val ELSE m[x]]

Has(m, key) == key \in DOMAIN m

(* File contents *)
Absent    == [kind |-> "absent", val |-> JNull]
Malformed == [kind |-> "malformed", val |-> JNull]
Json(v)   == [kind |-> "json", val |-> v]

----------------------------------------------------------------------------
(* encoding/json *)

\* strconv.ParseFloat(literal, 64) as the decoder applies it to a number:
\* below 2^53 every integer is a float64; from 2^53 on only the even ones
\* are, and an odd one goes to the neighbour whose mantissa is even.
ParseFloat64(n) ==
    IF n[1] = 0 \/ n[2] % 2 = 0 THEN n
    ELSE IF (n[2] - 1) % 4 = 0 THEN <<n[1], n[2] - 1>> ELSE <<n[1], n[2] + 1>>

\* the value json.Unmarshal stores into an `any` for the JSON value v
RECURSIVE DecodeValue(_)
DecodeValue(v) ==
    IF v.t = "num" THEN [v EXCEPT !.n = ParseFloat64(v.n)]
    ELSE IF v.t = "obj" THEN JObj([x \in DOMAIN v.o |-> DecodeValue(v.o[x])])
    ELSE v

\* json.Unmarshal(data, &config) with config a nil map[string]any
Unmarshal(c) ==
    IF c.kind = "malformed" THEN [err |-> TRUE, isNil |-> TRUE, m |-> NoObj]
    ELSE IF c.val.t = "null" THEN [err |-> FALSE, isNil |-> TRUE, m |-> NoObj]
    ELSE IF c.val.t = "obj"
         THEN [err |-> FALSE, isNil |-> FALSE, m |-> DecodeValue(c.val).o]
    ELSE [err |-> TRUE, isNil |-> TRUE, m |-> NoObj]

\* json.MarshalIndent(config, "", "  "): a float64 is printed with the
\* shortest digits that read back as the same float64
MarshalIndent(m) == Json(JObj(m))

----------------------------------------------------------------------------
(* patchBiomeConfig *)

FmtKey    == "formatter"
FweKey    == "formatWithErrors"
JsKey     == "javascript"
ParserKey == "parser"
UpdKey    == "unsafeParameterDecoratorsEnabled"

\* a variant that creates the missing section without its flag
PatchFormatterEmptySection(m) ==
    IF Has(m, FmtKey) /\ IsObj(m[FmtKey])
    THEN Put(m, FmtKey, JObj(Put(m[FmtKey].o, FweKey, JTrue)))
    ELSE Put(m, FmtKey, JObj(NoObj))

\* a variant that always builds the section afresh
PatchFormatterFresh(m) == Put(m, FmtKey, JObj(Single(FweKey, JTrue)))

\* a variant that leaves a flag it finds as it is
PatchFormatterKeepFlag(m) ==
    IF Has(m, FmtKey) /\ IsObj(m[FmtKey])
    THEN IF Has(m[FmtKey].o, FweKey) THEN m
         ELSE Put(m, FmtKey, JObj(Put(m[FmtKey].o, FweKey, JTrue)))
    ELSE Put(m, FmtKey, JObj(Single(FweKey, JTrue)))

\* lines 231-237
PatchFormatter(m) ==
    IF Has(m, FmtKey) /\ IsObj(m[FmtKey])
    THEN Put(m, FmtKey, JObj(Put(m[FmtKey].o, FweKey, JTrue)))
    ELSE Put(m, FmtKey, JObj(Single(FweKey, JTrue)))

\* lines 239-249
PatchJavascript(m) ==
    IF Has(m, JsKey) /\ IsObj(m[JsKey])
    THEN Put(m, JsKey, JObj(Put(m[JsKey].o, ParserKey, JObj(Single(UpdKey, JTrue)))))
    ELSE Put(m, JsKey, JObj(Single(ParserKey, JObj(Single(UpdKey, JTrue)))))

\* os.WriteFile(path, output, 0o644) over a file holding c: "ok" writes out,
\* "fail" is an error before anything is written, "short" an error after the
\* file was truncated and only part of out was written
WriteFile(c, out, w) ==
    IF w = "ok" THEN out ELSE IF w = "fail" THEN c ELSE Malformed

WriteOutcomes == {"ok", "fail", "short"}

\* patchBiomeConfig(path) on a file holding c, the write ending as w.
\* Result: the outcome and the content the file is left with.
PatchBiomeConfig(c, w) ==
    IF c.kind = "absent" THEN [out |-> "err", content |-> c]
    ELSE LET u == Unmarshal(c) IN
         IF u.err THEN [out |-> "err", content |-> c]
         ELSE IF u.isNil THEN [out |-> "panic", content |-> c]
         ELSE [out |-> IF w = "ok" THEN "ok" ELSE "err",
               content |-> WriteFile(c,
                              MarshalIndent(PatchJavascript(PatchFormatter(u.m))), w)]

----------------------------------------------------------------------------
(* SpecPatch: the documents patchBiomeConfig is applied to *)

Nums      == {<<b, k>> : b \in 0..1, k \in 0..MaxOff}
FlagVals  == {JTrue, JFalse}
OtherVals == {JNum(n[1], n[2]) : n \in Nums} \cup {JStr}
NonObj    == {JNull, JTrue}

\* the objects with at most the keys k1 (values V1) and k2 (values V2)
Objs2(k1, V1, k2, V2) ==
    UNION { {f \in [S -> V1 \cup V2] :
                /\ (k1 \in S => f[k1] \in V1)
                /\ (k2 \in S => f[k2] \in V2)} : S \in SUBSET {k1, k2} }

OtherTop == "linter"

ParserVals    == NonObj \cup {JObj(f) : f \in Objs2(UpdKey, FlagVals, "jsxEverywhere", OtherVals)}
JsVals        == NonObj \cup {JObj(f) : f \in Objs2(ParserKey, ParserVals, "globals", OtherVals)}
FormatterVals == NonObj \cup {JObj(f) : f \in Objs2(FweKey, FlagVals, "indentStyle", OtherVals)}

TopObjs ==
    UNION { {f \in [S -> FormatterVals \cup JsVals \cup OtherVals] :
                /\ (FmtKey \in S => f[FmtKey] \in FormatterVals)
                /\ (JsKey \in S => f[JsKey] \in JsVals)
                /\ (OtherTop \in S => f[OtherTop] \in OtherVals)}
            : S \in SUBSET {FmtKey, JsKey, OtherTop} }

PatchInputs ==
    {Absent, Malformed, Json(JNull), Json(JTrue), Json(JNum(0, 1))}
        \cup {Json(JObj(f)) : f \in TopObjs}

IdleScan ==
    /\ tree = <<>> /\ todo = <<>> /\ locations = <<>> /\ visited = {}
    /\ errSeen = FALSE /\ walkPc = "idle"

IdleMain ==
    /\ locs = <<>> /\ scanErr = FALSE /\ dryRun = FALSE /\ fs = <<>> /\ fs0 = <<>>
    /\ pc = "idle" /\ remaining = {} /\ cur = 0 /\ existingBiome = FALSE
    /\ migrationFailed = FALSE /\ log = <<>> /\ ended = {} /\ exitCode = -1
    /\ reminder = FALSE

IdlePatch == pfile = <<>> /\ pout = <<>>

InitPatch ==
    /\ pfile \in {<<c>> : c \in PatchInputs}
    /\ pout = <<>>
    /\ IdleScan /\ IdleMain

LastOut == IF pout = <<>> THEN "none" ELSE pout[Len(pout)]

\* one call patchBiomeConfig(path) whose write, if it comes to it, succeeds
PatchCall ==
    /\ Len(pout) < MaxPatches
    /\ LastOut # "panic"
    /\ LET r == PatchBiomeConfig(pfile[Len(pfile)], "ok") IN
         /\ pfile' = Append(pfile, r.content)
         /\ pout' = Append(pout, r.out)
    /\ UNCHANGED <<varsScan, varsMain>>

\* one call in which os.WriteFile fails
PatchCallWriteFails ==
    /\ Len(pout) < MaxPatches
    /\ LastOut # "panic"
    /\ \E w \in WriteOutcomes \ {"ok"} :
         LET r == PatchBiomeConfig(pfile[Len(pfile)], w) IN
           /\ pfile' = Append(pfile, r.content)
           /\ pout' = Append(pout, r.out)
    /\ UNCHANGED <<varsScan, varsMain>>

NextPatch == PatchCall \/ PatchCallWriteFails

SpecPatch == InitPatch /\ [][NextPatch]_vars

----------------------------------------------------------------------------
(* findConfigs *)

\* lines 14-24
eslintConfigFiles ==
    {".eslintrc.json", ".eslintrc.js", ".eslintrc.cjs", ".eslintrc.yaml",
     ".eslintrc.yml", ".eslintrc", "eslint.config.js", "eslint.config.mjs",
     "eslint.config.cjs"}

\* lines 26-39
prettierConfigFiles ==
    {".prettierrc", ".prettierrc.json", ".prettierrc.yml", ".prettierrc.yaml",
     ".prettierrc.json5", ".prettierrc.js", ".prettierrc.cjs", ".prettierrc.mjs",
     ".prettierrc.toml", "prettier.config.js", "prettier.config.cjs",
     "prettier.config.mjs"}

\* a denylist that lost one of its names
IsPrunedShort(name) == name \in {"node_modules", ".git", "dist", "build"}

\* line 173
IsPruned(name) == name \in {"node_modules", ".git", "dist", "build", ".devops"}

\* line 182
IsEslintFile(name) == name \in eslintConfigFiles

\* a membership test against the wrong list
IsPrettierFileWrongList(name) == name \in eslintConfigFiles

\* line 189
IsPrettierFile(name) == name \in prettierConfigFiles

(* The walked tree: nodes 1..MaxNodes, node 1 the root, the nodes 2n and   *)
(* 2n+1 the entries of directory n.                                        *)

Nodes     == 1..MaxNodes
Parent(n) == n \div 2
Entries(n) == {c \in Nodes : c > 1 /\ Parent(c) = n /\ tree[c].kind # "none"}

RECURSIVE Ancestors(_)
Ancestors(n) == IF n <= 1 THEN {} ELSE {Parent(n)} \cup Ancestors(Parent(n))

\* the names of the entries, in the byte order filepath.Walk sorts them by
EntryNames == <<".devops", ".eslintrc.json", ".git", "build", "node_modules",
                "pkg", "prettier.config.js">>
Rank(name) == CHOOSE i \in 1..Len(EntryNames) : EntryNames[i] = name

NoEntry == [kind |-> "none", name |-> "", err |-> "none"]
Dir(name)  == [kind |-> "dir", name |-> name, err |-> "none"]
File(name) == [kind |-> "file", name |-> name, err |-> "none"]

EntryOpts ==
    {NoEntry}
      \cup {Dir(nm) : nm \in {"node_modules", ".git", "build", ".devops", "pkg",
                            ".eslintrc.json"}}
      \cup {File(nm) : nm \in {".eslintrc.json", "prettier.config.js", "build"}}

RootOpts == {Dir(nm) : nm \in {"pkg", "dist"}}

\* a tree a file system can hold: entries only inside directories, no two
\* entries of a directory with the same name
WellFormed(t) ==
    \A n \in Nodes \ {1} :
        /\ (t[Parent(n)].kind # "dir" => t[n].kind = "none")
        /\ \A m \in Nodes \ {1} :
              (m # n /\ Parent(m) = Parent(n) /\ t[n].kind # "none" /\ t[m].kind # "none")
                  => t[m].name # t[n].name

\* the entries of directory n in the order the walk takes them
RECURSIVE SortedSeq(_)
SortedSeq(S) ==
    IF S = {} THEN <<>>
    ELSE LET c == CHOOSE x \in S : \A y \in S : Rank(tree[x].name) <= Rank(tree[y].name)
         IN  <<c>> \o SortedSeq(S \ {c})

\* lines 182-194: the map after the file `name` of directory d was classified
Classify(l, d, name) ==
    LET l1 == IF IsEslintFile(name)
              THEN Put(l, d, [hasEslint |-> TRUE,
                              hasPrettier |-> IF Has(l, d) THEN l[d].hasPrettier ELSE FALSE])
              ELSE l
    IN  IF IsPrettierFile(name)
        THEN Put(l1, d, [hasEslint |-> IF Has(l1, d) THEN l1[d].hasEslint ELSE FALSE,
                         hasPrettier |-> TRUE])
        ELSE l1

InitScan ==
    /\ \E r \in RootOpts, sub \in [Nodes \ {1} -> EntryOpts],
          en \in Nodes \cup {0}, ek \in {"perm", "io"} :
          LET t == [n \in Nodes |-> IF n = 1 THEN r ELSE sub[n]] IN
            /\ WellFormed(t)
            /\ (en # 0 => t[en].kind # "none")
            /\ (en = 0 => ek = "perm")
            /\ tree = [n \in Nodes |-> IF n = en THEN [t[n] EXCEPT !.err = ek] ELSE t[n]]
    /\ todo = <<1>>
    /\ locations = <<>>
    /\ visited = {}
    /\ errSeen = FALSE
    /\ walkPc = "walk"
    /\ IdlePatch /\ IdleMain

Finished(rest) == IF rest = <<>> THEN "done" ELSE "walk"

\* lines 164-169: the walk function is called with an error for the next path
VisitError ==
    /\ walkPc = "walk"
    /\ LET n == Head(todo) IN
         /\ tree[n].err # "none"
         /\ visited' = visited \cup {n}
         /\ errSeen' = TRUE
         /\ IF tree[n].err = "perm"
            THEN todo' = Tail(todo) /\ walkPc' = Finished(Tail(todo))
            ELSE todo' = <<>> /\ walkPc' = "failed"
    /\ UNCHANGED <<tree, locations, varsPatch, varsMain>>

\* lines 171-177: the next path is a directory
VisitDir ==
    /\ walkPc = "walk"
    /\ LET n == Head(todo) IN
         /\ tree[n].err = "none" /\ tree[n].kind = "dir"
         /\ visited' = visited \cup {n}
         /\ todo' = IF IsPruned(tree[n].name) THEN Tail(todo)
                    ELSE SortedSeq(Entries(n)) \o Tail(todo)
         /\ walkPc' = Finished(todo')
    /\ UNCHANGED <<tree, locations, errSeen, varsPatch, varsMain>>

\* lines 179-196: the next path is not a directory
VisitFile ==
    /\ walkPc = "walk"
    /\ LET n == Head(todo) IN
         /\ tree[n].err = "none" /\ tree[n].kind = "file"
         /\ visited' = visited \cup {n}
         /\ locations' = Classify(locations, Parent(n), tree[n].name)
         /\ todo' = Tail(todo)
         /\ walkPc' = Finished(Tail(todo))
    /\ UNCHANGED <<tree, errSeen, varsPatch, varsMain>>

NextScan == VisitError \/ VisitDir \/ VisitFile

SpecScan == InitScan /\ [][NextScan]_vars

----------------------------------------------------------------------------
(* Properties of findConfigs, checked under SpecScan *)

\* the directory names the scanner is to skip
PrunedNames == {"node_modules", ".git", "dist", "build", ".devops"}

PrunedDir(n) == tree[n].kind = "dir" /\ tree[n].name \in PrunedNames

\* C5: no pruned directory is a key of the result, and nothing below a pruned
\* directory is visited or is a key.
C5_PrunedNeverScanned ==
    /\ \A d \in DOMAIN locations :
          ~PrunedDir(d) /\ \A a \in Ancestors(d) : ~PrunedDir(a)
    /\ \A n \in visited : \A a \in Ancestors(n) : ~PrunedDir(a)

\* the walk has finished over a tree in which .devops holds a config file
C5_Witness ==
    /\ walkPc = "done"
    /\ \E n \in Nodes \ {1} :
          /\ tree[n].kind = "file" /\ IsEslintFile(tree[n].name)
          /\ tree[Parent(n)].kind = "dir" /\ tree[Parent(n)].name = ".devops"
          /\ Parent(n) \in visited
          /\ ~PrunedDir(1)

\* directory d is reached by the walk: neither it nor a directory above it
\* is pruned
Reached(d) == ~PrunedDir(d) /\ \A a \in Ancestors(d) : ~PrunedDir(a)

FilesOf(d) == {c \in Entries(d) : tree[c].kind = "file"}

\* C6: after a walk that met no error, the keys are exactly the reached
\* directories that hold a file of either list, hasEslint says that the
\* directory holds a file of the linter list and hasPrettier that it holds
\* one of the formatter list.
C6_KeysAndFlagsExact ==
    (walkPc = "done" /\ ~errSeen) =>
        /\ DOMAIN locations \subseteq {d \in Nodes : tree[d].kind = "dir"}
        /\ \A d \in Nodes : tree[d].kind = "dir" =>
              /\ d \in DOMAIN locations <=>
                    /\ Reached(d)
                    /\ \E c \in FilesOf(d) : tree[c].name \in eslintConfigFiles \cup prettierConfigFiles
              /\ d \in DOMAIN locations =>
                    /\ locations[d].hasEslint <=>
                          \E c \in FilesOf(d) : tree[c].name \in eslintConfigFiles
                    /\ locations[d].hasPrettier <=>
                          \E c \in FilesOf(d) : tree[c].name \in prettierConfigFiles

\* a finished walk with a linter-only directory and a formatter-only one
C6_Witness ==
    /\ walkPc = "done" /\ ~errSeen
    /\ \E d \in DOMAIN locations : locations[d].hasEslint /\ ~locations[d].hasPrettier
    /\ \E d \in DOMAIN locations : ~locations[d].hasEslint /\ locations[d].hasPrettier

----------------------------------------------------------------------------
(* main, from the call of findConfigs on *)

Dirs == 1..NumDirs

\* lines 41-49
minimalBiomeConfig ==
    Json(JObj(Single("linter",
        JObj([x \in {"enabled", "rules"} |->
                 IF x = "enabled" THEN JTrue
                 ELSE JObj(Single("recommended", JTrue))]))))

\* a biome.json a project may already hold
ExistingDoc == Json(JObj(Single(FmtKey, JObj(Single("indentStyle", JStr)))))

\* a biome.json as the external tool may leave it after a migration
MigratedDoc ==
    Json(JObj([x \in {"linter", FmtKey} |->
                 IF x = "linter" THEN JObj(Single("enabled", JTrue))
                 ELSE JObj(Single("indentStyle", JStr))]))

InitContents == {Absent, Json(JNull), ExistingDoc}

\* what `npx @biomejs/biome migrate ... --write` may do to the biome.json of
\* its working directory, which holds c: the tool is outside the program
ToolContents(c) == {c, MigratedDoc, Malformed, Absent}

\* the results findConfigs can return without error
ScanResults ==
    UNION { [S -> {f \in [hasEslint : BOOLEAN, hasPrettier : BOOLEAN] :
                      f.hasEslint \/ f.hasPrettier}] : S \in SUBSET Dirs }

InitMain ==
    /\ scanErr \in BOOLEAN
    /\ locs \in ScanResults
    /\ (scanErr => locs = <<>>)
    /\ dryRun \in BOOLEAN
    /\ fs \in [Dirs -> InitContents]
    /\ fs0 = fs
    /\ pc = "scan"
    /\ remaining = {}
    /\ cur = 0
    /\ existingBiome = FALSE
    /\ migrationFailed = FALSE
    /\ log = [d \in Dirs |-> <<>>]
    /\ ended = {}
    /\ exitCode = -1
    /\ reminder = FALSE
    /\ IdlePatch /\ IdleScan

Logged(d, ev) == [log EXCEPT ![d] = Append(@, ev)]

\* lines 73-77: findConfigs failed
ScanFails ==
    /\ pc = "scan" /\ scanErr
    /\ pc' = "exit" /\ exitCode' = 1
    /\ UNCHANGED <<locs, scanErr, dryRun, fs, fs0, remaining, cur, existingBiome,
                   migrationFailed, log, ended, reminder, varsPatch, varsScan>>

\* lines 79-82: nothing found
NoConfigs ==
    /\ pc = "scan" /\ ~scanErr /\ DOMAIN locs = {}
    /\ pc' = "exit" /\ exitCode' = 0
    /\ UNCHANGED <<locs, scanErr, dryRun, fs, fs0, remaining, cur, existingBiome,
                   migrationFailed, log, ended, reminder, varsPatch, varsScan>>

\* lines 84-94: the locations are listed and the loop begins
ScanFound ==
    /\ pc = "scan" /\ ~scanErr /\ DOMAIN locs # {}
    /\ pc' = "loop" /\ remaining' = DOMAIN locs
    /\ UNCHANGED <<locs, scanErr, dryRun, fs, fs0, cur, existingBiome,
                   migrationFailed, log, ended, exitCode, reminder, varsPatch, varsScan>>

\* lines 108-123: the iteration for d up to the migrations, the write of the
\* skeleton ending as w
StartMigration(d, w) ==
    /\ remaining' = remaining \ {d}
    /\ existingBiome' = (fs[d].kind # "absent")
    /\ migrationFailed' = FALSE
    /\ IF fs[d].kind # "absent"
       THEN /\ cur' = d /\ pc' = "eslint"
            /\ UNCHANGED <<fs, log, ended>>
       ELSE /\ fs' = [fs EXCEPT ![d] = WriteFile(fs[d], minimalBiomeConfig, w)]
            /\ IF w = "ok"
               THEN /\ cur' = d /\ pc' = "eslint"
                    /\ log' = Logged(d, "skeleton")
                    /\ UNCHANGED ended
               ELSE /\ cur' = 0 /\ pc' = "loop"
                    /\ log' = Logged(d, "createfail")
                    /\ ended' = ended \cup {d}
    /\ UNCHANGED <<locs, scanErr, dryRun, fs0, exitCode, reminder, varsPatch, varsScan>>

\* a dry run that falls through into the migration
DryRunIterFallsThrough ==
    /\ pc = "loop" /\ dryRun
    /\ \E d \in remaining, w \in WriteOutcomes : StartMigration(d, w)

\* lines 96-106: one iteration of the loop in dry-run mode
DryRunIter ==
    /\ pc = "loop" /\ dryRun
    /\ \E d \in remaining :
          /\ remaining' = remaining \ {d}
          /\ ended' = ended \cup {d}
    /\ UNCHANGED <<locs, scanErr, dryRun, fs, fs0, pc, cur, existingBiome,
                   migrationFailed, log, exitCode, reminder, varsPatch, varsScan>>

\* lines 96, 108-123: one iteration begins outside dry-run mode
BeginMigrate ==
    /\ pc = "loop" /\ ~dryRun
    /\ \E d \in remaining, w \in WriteOutcomes : StartMigration(d, w)

\* lines 125-132 and 202-209
MigrateEslint ==
    /\ pc = "eslint"
    /\ IF locs[cur].hasEslint
       THEN \E c \in ToolContents(fs[cur]), failed \in BOOLEAN :
               /\ fs' = [fs EXCEPT ![cur] = c]
               /\ migrationFailed' = (migrationFailed \/ failed)
               /\ log' = Logged(cur, "eslint")
       ELSE UNCHANGED <<fs, migrationFailed, log>>
    /\ pc' = "prettier"
    /\ UNCHANGED <<locs, scanErr, dryRun, fs0, remaining, cur, existingBiome,
                   ended, exitCode, reminder, varsPatch, varsScan>>

\* lines 134-141 and 211-218
MigratePrettier ==
    /\ pc = "prettier"
    /\ IF locs[cur].hasPrettier
       THEN \E c \in ToolContents(fs[cur]), failed \in BOOLEAN :
               /\ fs' = [fs EXCEPT ![cur] = c]
               /\ migrationFailed' = (migrationFailed \/ failed)
               /\ log' = Logged(cur, "prettier")
       ELSE UNCHANGED <<fs, migrationFailed, log>>
    /\ pc' = "patch"
    /\ UNCHANGED <<locs, scanErr, dryRun, fs0, remaining, cur, existingBiome,
                   ended, exitCode, reminder, varsPatch, varsScan>>

\* a safeguard that forgot to ask whether a family was flagged
ShouldRemoveAnyFailure(failed, existing, loc) == failed /\ ~existing

\* line 143
ShouldRemove(failed, existing, loc) ==
    failed /\ ~existing /\ ~loc.hasEslint /\ ~loc.hasPrettier

\* lines 143-152: the safeguard, the patch and the end of the iteration
PatchStep ==
    /\ pc = "patch"
    /\ IF ShouldRemove(migrationFailed, existingBiome, locs[cur])
       THEN /\ fs' = [fs EXCEPT ![cur] = Absent]
            /\ log' = Logged(cur, "remove")
            /\ ended' = ended \cup {cur}
            /\ pc' = "loop" /\ cur' = 0
            /\ UNCHANGED exitCode
       ELSE \E w \in WriteOutcomes :
              LET r == PatchBiomeConfig(fs[cur], w) IN
                /\ fs' = [fs EXCEPT ![cur] = r.content]
                /\ log' = Logged(cur, "patch")
                /\ IF r.out = "panic"
                   THEN /\ pc' = "exit" /\ exitCode' = 2
                        /\ UNCHANGED <<ended, cur>>
                   ELSE /\ pc' = "loop" /\ cur' = 0
                        /\ ended' = ended \cup {cur}
                        /\ UNCHANGED exitCode
    /\ UNCHANGED <<locs, scanErr, dryRun, fs0, remaining, existingBiome,
                   migrationFailed, reminder, varsPatch, varsScan>>

\* lines 155-158: the loop is over
Done ==
    /\ pc = "loop" /\ remaining = {}
    /\ pc' = "exit" /\ exitCode' = 0 /\ reminder' = TRUE
    /\ UNCHANGED <<locs, scanErr, dryRun, fs, fs0, remaining, cur, existingBiome,
                   migrationFailed, log, ended, varsPatch, varsScan>>

NextMain ==
    \/ ScanFails \/ NoConfigs \/ ScanFound
    \/ DryRunIter \/ BeginMigrate \/ MigrateEslint \/ MigratePrettier
    \/ PatchStep \/ Done

SpecMain == InitMain /\ [][NextMain]_vars

----------------------------------------------------------------------------
(* Properties of main, checked under SpecMain *)

\* C4: in dry-run mode with a non-empty scan result no biome.json is created,
\* written, patched or removed and no migration is launched: every file is
\* as it was at the start.
C4_DryRunTouchesNothing ==
    (dryRun /\ DOMAIN locs # {}) =>
        /\ fs = fs0
        /\ \A d \in Dirs : log[d] = <<>>

\* a dry run that went through every directory of a scan result holding a
\* directory without biome.json
C4_Witness ==
    /\ dryRun /\ pc = "exit" /\ reminder
    /\ DOMAIN locs # {} /\ ended = DOMAIN locs
    /\ \E d \in DOMAIN locs : fs0[d] = Absent

\* C7 (as claimed): a run outside dry-run mode whose scan succeeded ends with
\* every directory of the scan result processed, the reminder printed and
\* exit code 0.
C7_RunNeverAborts ==
    (pc = "exit" /\ ~scanErr /\ ~dryRun /\ DOMAIN locs # {}) =>
        /\ ended = DOMAIN locs
        /\ reminder
        /\ exitCode = 0

\* the effects main performs for directory d, in order
Expected(d) ==
    (IF fs0[d] = Absent THEN <<"skeleton">> ELSE <<>>)
        \o (IF locs[d].hasEslint THEN <<"eslint">> ELSE <<>>)
        \o (IF locs[d].hasPrettier THEN <<"prettier">> ELSE <<>>)
        \o <<"patch">>

IsPrefix(a, b) == Len(a) <= Len(b) /\ a = SubSeq(b, 1, Len(a))

\* C9: for a directory whose biome.json existed or was created, main writes
\* the skeleton only if there was no biome.json and before anything else,
\* runs the linter migration once iff hasEslint, then the formatter
\* migration once iff hasPrettier, then the Patcher once, and never removes
\* the file.
C9_StepsInOrder ==
    \A d \in DOMAIN locs :
        (~dryRun /\ log[d] # <<"createfail">>) =>
            /\ IsPrefix(log[d], Expected(d))
            /\ (d \in ended => log[d] = Expected(d))

\* an iteration that created the skeleton, saw both migrations fail and
\* still ran the Patcher
C9_Witness ==
    \E d \in ended :
        /\ ~dryRun
        /\ log[d] = <<"skeleton", "eslint", "prettier", "patch">>
        /\ migrationFailed

----------------------------------------------------------------------------
(* Properties of patchBiomeConfig, checked under SpecPatch *)

\* the calls made so far
Calls == 1..Len(pout)

\* the document before and after call i
Before(i) == pfile[i].val.o
After(i)  == pfile[i + 1].val.o

HasObj(m, key) == Has(m, key) /\ IsObj(m[key])

FlagsSet(m) ==
    /\ HasObj(m, FmtKey)
    /\ Has(m[FmtKey].o, FweKey) /\ m[FmtKey].o[FweKey] = JTrue
    /\ HasObj(m, JsKey)
    /\ HasObj(m[JsKey].o, ParserKey)
    /\ Has(m[JsKey].o[ParserKey].o, UpdKey)
    /\ m[JsKey].o[ParserKey].o[UpdKey] = JTrue

\* C1: whenever patchBiomeConfig returns without error, the file it leaves
\* is a JSON object with formatter.formatWithErrors = true and
\* javascript.parser.unsafeParameterDecoratorsEnabled = true, whatever
\* formatter, javascript and javascript.parser were before.
C1_FlagsSetAfterPatch ==
    \A i \in Calls : pout[i] = "ok" =>
        /\ pfile[i + 1].kind = "json" /\ IsObj(pfile[i + 1].val)
        /\ FlagsSet(After(i))

\* a successful call on a document whose formatter is not an object, whose
\* javascript is an object and whose javascript.parser is not an object
C1_Witness ==
    /\ Len(pout) >= 1 /\ pout[1] = "ok"
    /\ Has(Before(1), FmtKey) /\ ~IsObj(Before(1)[FmtKey])
    /\ HasObj(Before(1), JsKey)
    /\ Has(Before(1)[JsKey].o, ParserKey) /\ ~IsObj(Before(1)[JsKey].o[ParserKey])

\* C2 (as claimed): when javascript.parser is an object, a successful call
\* keeps every key of javascript.parser other than
\* unsafeParameterDecoratorsEnabled, and every other key of javascript, with
\* the value the decoder read for it.
C2_ParserKeysPreserved ==
    \A i \in Calls :
        (/\ pout[i] = "ok"
         /\ HasObj(Before(i), JsKey)
         /\ HasObj(Before(i)[JsKey].o, ParserKey))
        => LET js0 == Before(i)[JsKey].o
               js1 == After(i)[JsKey].o
           IN  /\ \A k \in (DOMAIN js0[ParserKey].o) \ {UpdKey} :
                     /\ Has(js1[ParserKey].o, k)
                     /\ js1[ParserKey].o[k] = DecodeValue(js0[ParserKey].o[k])
               /\ \A k \in (DOMAIN js0) \ {ParserKey} :
                     Has(js1, k) /\ js1[k] = DecodeValue(js0[k])

C8_PatchIdempotent ==
    \A i \in Calls :
        (i + 1 \in Calls /\ pout[i] = "ok" /\ pout[i + 1] = "ok")
            => pfile[i + 2] = pfile[i + 1]

\* two successful calls on a document that had neither section and held a
\* number the first call rewrote
C8_Witness ==
    /\ Len(pout) >= 2 /\ pout[1] = "ok" /\ pout[2] = "ok"
    /\ ~Has(Before(1), FmtKey) /\ ~Has(Before(1), JsKey)
    /\ Has(Before(1), OtherTop) /\ After(1)[OtherTop] # Before(1)[OtherTop]

\* C10 (as claimed): on a file that cannot be read, is malformed or holds a
\* top-level value that is no object, patchBiomeConfig returns an error and
\* leaves the file as it was.
Unparsable(c) == c.kind # "json" \/ ~IsObj(c.val)

C10_ErrorAndNoWrite ==
    \A i \in Calls : Unparsable(pfile[i]) =>
        pout[i] = "err" /\ pfile[i + 1] = pfile[i]

=============================================================================
